---- MODULE Spec2Model ----
(***************************************************************************)
(* A model of streamlit_app.py, the PPT generator.  The program is a       *)
(* Streamlit script: every user gesture (a button click, a form submit, a  *)
(* drag in the sortable list) re-runs the script top to bottom with that   *)
(* one widget triggered, against st.session_state, which survives between  *)
(* runs.  One action of the model is one such run.  An uncaught exception  *)
(* ends the run where it is raised: the code below that line does not      *)
(* execute in that run, and session state keeps what was written so far.   *)
(*                                                                         *)
(* Python lists are objects: st.session_state.slides, and every entry of   *)
(* undo_stack and redo_stack, is a reference into `heap`.  Slide dicts are *)
(* never mutated in place by any handler (line 352 replaces a list         *)
(* element), so a slide is modelled as a value.                            *)
(***************************************************************************)
EXTENDS Integers, Sequences, FiniteSets, TLC

\* ------------------------------------------------------------------ bounds
\* The longest outline the model builds.
MaxSlides == 2
\* The number of commits (history-tracked outline replacements) in one run.
MaxCommits == 2
\* List objects alive at once: the live list, one per stack entry, and the
\* two a handler allocates before the old ones are dropped.
MaxObj == MaxCommits + 2
ObjIds == 1..MaxObj

\* ------------------------------------------------------------- sentinels
\* A key that a slide dict does not have (dict.get returns its default).
Absent == "<absent>"
\* Python's None / JSON null.
None == "<None>"

\* ------------------------------------------------------ sequence helpers
Range(s) == {s[i] : i \in 1..Len(s)}
Front(s) == SubSeq(s, 1, Len(s) - 1)
Last(s) == s[Len(s)]
\* list.pop(i), i counted from 0 as in Python.
RemoveAt(s, i) == SubSeq(s, 1, i) \o SubSeq(s, i + 2, Len(s))
\* s[i] = v, i counted from 0.
SetAt(s, i, v) == [s EXCEPT ![i + 1] = v]
\* [x for x in s if x] over strings and over numbers.
FilterStr(s) == SelectSeq(s, LAMBDA x : x # "")
FilterNum(s) == SelectSeq(s, LAMBDA x : x # 0)

\* --------------------------------------------------------------- datasets
\* st.session_state.dataset: a pandas DataFrame, seen through its column
\* names, which of them are numeric, and which hold missing values.
NoDataset == [name |-> None, columns |-> <<>>, numeric |-> {}, hasna |-> {}]
SalesData == [name |-> "sales.csv", columns |-> <<"Region", "Sales">>,
              numeric |-> {"Sales"}, hasna |-> {}]

\* ----------------------------------------------------------------- slides
\* chart_data of a slide: None, {"categories", "values"} (Manual) or
\* {"x_col", "y_col", "category_col"} (Dataset); or the slide has no such
\* key ("absent").
NoChartData == [kind |-> "none", categories |-> <<>>, values |-> <<>>,
                x_col |-> None, y_col |-> None, category_col |-> None]
AbsentChartData == [NoChartData EXCEPT !.kind = "absent"]
ManualData(cats, vals) == [NoChartData EXCEPT !.kind = "manual",
                           !.categories = cats, !.values = vals]
DatasetData(x, y, c) == [NoChartData EXCEPT !.kind = "dataset",
                         !.x_col = x, !.y_col = y, !.category_col = c]

\* One entry of the outline.  isdict is FALSE for a JSON value that is not
\* an object (a number, a string): the outline loader accepts those.
\* title_alignment stands for the text-format keys of a slide; a slide
\* built by MkSlide has none of them.
MkSlide(t, c, ch, cd, cit, img) ==
    [isdict |-> TRUE, title |-> t, content |-> c, chart |-> ch,
     chart_data |-> cd, chart_input_type |-> cit, image |-> img,
     title_alignment |-> Absent]
\* {}: slide_data when no slide is being edited.
EmptyDict == MkSlide(Absent, <<>>, "", AbsentChartData, Absent, None)
NonDictSlide == [EmptyDict EXCEPT !.isdict = FALSE]

\* str.strip() on the titles and texts of the model: the blank ones become
\* the empty string, the others carry no surrounding whitespace.
Strip(t) == IF t \in {"", " ", "  "} THEN "" ELSE t
\* str.lower() on the chart type names and the alignments of the form.
Lower(t) ==
    CASE t = "Pie" -> "pie" [] t = "Bar" -> "bar" [] t = "Line" -> "line"
      [] t = "Scatter" -> "scatter" [] t = "Left" -> "left"
      [] t = "Center" -> "center" [] t = "Right" -> "right" [] OTHER -> t
\* str.capitalize() on the chart names a slide stores.
Capitalize(t) ==
    CASE t = "pie" -> "Pie" [] t = "bar" -> "Bar" [] t = "line" -> "Line"
      [] t = "scatter" -> "Scatter" [] OTHER -> t

\* ------------------------------------------------------------ form inputs
\* What the user has put into slide_form when the submit button is pressed.
\* keep: the bullets multiselect is left at its default (in edit mode, the
\* edited slide's bullets; otherwise nothing).  rows: the Category i / Value i
\* inputs of the manual chart.  uploaded: the CSV given to the file uploader.
Row(c, v) == [cat |-> c, val |-> v]
NoForm == [title |-> "", keep |-> TRUE, new_bullet |-> "",
           chart_input_type |-> "Manual", chart_type |-> "None", rows |-> <<>>,
           uploaded |-> NoDataset, x_col |-> None, y_col |-> None,
           category_col |-> "None", image |-> "", title_alignment |-> "Left"]
PlainForm(t) == [NoForm EXCEPT !.title = t]
ManualForm(t, ct, rows) ==
    [NoForm EXCEPT !.title = t, !.chart_type = ct, !.rows = rows]
DatasetForm(t, ct, up) ==
    [NoForm EXCEPT !.title = t, !.chart_input_type = "Dataset",
                   !.chart_type = ct, !.uploaded = up,
                   !.x_col = "Region", !.y_col = "Sales"]
FormInputs ==
    { PlainForm(" "), PlainForm("A"),
      [PlainForm("B") EXCEPT !.new_bullet = "x"],
      [PlainForm("A") EXCEPT !.keep = FALSE],
      [PlainForm("B") EXCEPT !.image = "img.png"],
      ManualForm("A", "Pie", <<Row("c1", 5), Row("c2", 7)>>),
      ManualForm("A", "Pie", <<Row("c1", 5), Row("c2", 0)>>),
      ManualForm("A", "Bar", <<Row("", 5), Row("c2", 0)>>),
      DatasetForm("A", "Bar", SalesData),
      DatasetForm("B", "Line", NoDataset) }

\* --------------------------------------------------------- outline texts
\* Texts pasted into the "Enter PPT Outline (JSON)" text area.
TextBlank == "  "
TextBad == "[{"
TextObject == "{\"title\": \"A\"}"
TextEmptyList == "[]"
TextTwo == "[{\"title\": \"A\", \"content\": [\"x\"]}, {\"title\": \"B\"}]"
TextNoTitle == "[{\"content\": [\"x\"]}]"
TextNonDict == "[1]"
TextJustify ==
    "[{\"title\": \"A\"}, {\"title\": \"B\", \"title_alignment\": \"justify\"}]"
TextTextColumn ==
    "[{\"title\": \"A\", \"chart\": \"bar\", \"chart_input_type\": \"Dataset\", \"chart_data\": {\"x_col\": \"Region\", \"y_col\": \"Region\"}}]"
OutlineTexts == {TextBlank, TextBad, TextObject, TextEmptyList, TextTwo,
                 TextNoTitle, TextNonDict, TextJustify, TextTextColumn}

JsonSlide(t, c) == [EmptyDict EXCEPT !.title = t, !.content = c]
\* json.loads on the texts above: ok is FALSE where it raises
\* JSONDecodeError; type is the Python type of the value; items are the
\* elements when the value is a list.
JsonLoads(text) ==
    CASE text = TextObject -> [ok |-> TRUE, type |-> "dict", items |-> <<>>]
      [] text = TextEmptyList -> [ok |-> TRUE, type |-> "list", items |-> <<>>]
      [] text = TextTwo ->
           [ok |-> TRUE, type |-> "list",
            items |-> <<JsonSlide("A", <<"x">>), JsonSlide("B", <<>>)>>]
      [] text = TextNoTitle ->
           [ok |-> TRUE, type |-> "list", items |-> <<JsonSlide(Absent, <<"x">>)>>]
      [] text = TextNonDict ->
           [ok |-> TRUE, type |-> "list", items |-> <<NonDictSlide>>]
      [] text = TextJustify ->
           [ok |-> TRUE, type |-> "list",
            items |-> <<JsonSlide("A", <<>>),
                        [JsonSlide("B", <<>>) EXCEPT !.title_alignment = "justify"]>>]
      [] text = TextTextColumn ->
           [ok |-> TRUE, type |-> "list",
            items |-> <<[JsonSlide("A", <<>>) EXCEPT
                           !.chart = "bar", !.chart_input_type = "Dataset",
                           !.chart_data = DatasetData("Region", "Region", None)]>>]
      [] OTHER -> [ok |-> FALSE, type |-> "error", items |-> <<>>]

\* ------------------------------------------------------------------ style
\* dict.get(key, default) on a key that may be absent.
Get(v, default) == IF v = Absent THEN default ELSE v
\* A style: the dict under st.session_state.style.  A theme file can put a
\* JSON value of another type there; `items` are then its elements.
MkStyle(f, fc, bt, c1, c2) ==
    [kind |-> "dict", items |-> {}, font |-> f, font_color |-> fc,
     bg_type |-> bt, bg_color1 |-> c1, bg_color2 |-> c2]
style_presets(preset) ==
    CASE preset = "Professional" ->
           MkStyle("Calibri", "#000080", "Gradient", "#DDE4FF", "#FFFFFF")
      [] preset = "Creative" ->
           MkStyle("Roboto", "#D81B60", "Solid", "#FFE082", None)
      [] preset = "Minimalist" ->
           MkStyle("Arial", "#000000", "Solid", "#FFFFFF", None)
Presets == {"Professional", "Creative", "Minimalist"}
\* The options of the "Font Type" select box that the presets use (the box
\* has fifteen more).
FontOptions == {"Arial", "Calibri", "Roboto"}
\* The style widgets of tab 2.
StyleWidgets == {"font", "font_color", "bg_type", "bg_color1", "bg_color2"}
\* The index= / value= arguments the widgets of tab 2 are created with,
\* read from the session style s.
WidgetDefaults(s) ==
    [font |-> Get(s.font, "Arial"),
     font_color |-> Get(s.font_color, "#000000"),
     bg_type |-> Get(s.bg_type, "Solid"),
     bg_color1 |-> Get(s.bg_color1, "#FFFFFF"),
     bg_color2 |-> IF s.bg_color2 \notin {Absent, None, ""}
                   THEN s.bg_color2 ELSE "#DDE4FF"]
\* The style the first run stores: the widgets' values when there is no
\* session style yet.
DefaultStyle == MkStyle("Arial", "#000000", "Solid", "#FFFFFF", None)
\* Tab 2 raises while it creates its widgets: the session style has no
\* .get, or a select box does not find the style's value among its options.
TabTwoRaises(s) ==
    \/ s.kind # "dict"
    \/ Get(s.font, "Arial") \notin FontOptions
    \/ Get(s.bg_type, "Solid") \notin {"Solid", "Gradient"}

\* Theme files given to "Upload Theme JSON".
NoTheme == "<no file>"
ThemeBad == "{"
ThemeFull ==
    "{\"font\": \"Roboto\", \"font_color\": \"#D81B60\", \"bg_type\": \"Solid\", \"bg_color1\": \"#FFE082\"}"
ThemeMissing ==
    "{\"font\": \"Roboto\", \"font_color\": \"#D81B60\", \"bg_type\": \"Solid\"}"
ThemeList == "[\"font\", \"font_color\", \"bg_type\", \"bg_color1\"]"
ThemeFiles == {ThemeBad, ThemeFull, ThemeMissing, ThemeList}
\* json.load on the theme files: ok is FALSE where it raises
\* JSONDecodeError.
JsonLoadTheme(text) ==
    CASE text = ThemeFull ->
           [ok |-> TRUE,
            value |-> MkStyle("Roboto", "#D81B60", "Solid", "#FFE082", Absent)]
      [] text = ThemeMissing ->
           [ok |-> TRUE,
            value |-> MkStyle("Roboto", "#D81B60", "Solid", Absent, Absent)]
      [] text = ThemeList ->
           [ok |-> TRUE,
            value |-> [MkStyle(Absent, Absent, Absent, Absent, Absent) EXCEPT
                         !.kind = "list",
                         !.items = {"font", "font_color", "bg_type", "bg_color1"}]]
      [] OTHER -> [ok |-> FALSE, value |-> DefaultStyle]
required_keys == {"font", "font_color", "bg_type", "bg_color1"}
\* all(key in theme_data for key in required_keys): a key of a dict, an
\* element of a list.
HasRequiredKeys(theme_data) ==
    \A key \in required_keys :
       IF theme_data.kind = "dict" THEN theme_data[key] # Absent
       ELSE key \in theme_data.items

\* ------------------------------------------------------------------ state
VARIABLES
    slides,      \* st.session_state.slides: the live list object
    undo_stack,  \* st.session_state.undo_stack: list objects, oldest first
    redo_stack,  \* st.session_state.redo_stack
    heap,        \* the contents of every list object
    edit_index,  \* st.session_state.edit_index (NoIndex for None)
    dataset,     \* st.session_state.dataset
    style,       \* st.session_state.style
    widgets,     \* the style widgets of tab 2: the arguments they were last
                 \* created with (shown) and what they read (value)
    theme_file,  \* the file held by the "Upload Theme JSON" uploader
    doc,         \* what this run produced, when it was a "Generate PPT" run
    commits,     \* how many commits have succeeded
    applied,     \* the last preset applied, and the widgets changed since
    last         \* the last run: its handler, its inputs, the state before it

vars == <<slides, undo_stack, redo_stack, heap, edit_index, dataset,
          style, widgets, theme_file, doc, commits, applied, last>>

\* st.session_state.edit_index = None
NoIndex == -1

\* The outline and the two stacks by content.
Outline == heap[slides]
UndoVals == [i \in 1..Len(undo_stack) |-> heap[undo_stack[i]]]
RedoVals == [i \in 1..Len(redo_stack) |-> heap[redo_stack[i]]]

\* ------------------------------------------------------------ list objects
InUse == {slides} \cup Range(undo_stack) \cup Range(redo_stack)
\* A list object not in `used`: the one with the least identifier.
Fresh(used) ==
    CHOOSE o \in ObjIds \ used : \A p \in ObjIds \ used : o <= p
\* The references of a state, the live list first.
Refs(s, u, r) == <<s>> \o u \o r
\* The place of object o among the objects of refs, in order of first
\* appearance.
Rank(refs, o) ==
    LET first == CHOOSE i \in 1..Len(refs) :
                     refs[i] = o /\ \A j \in 1..(i - 1) : refs[j] # o
    IN  Cardinality({refs[j] : j \in 1..first})
\* The session state after a handler: live list s, stacks u and r, over heap
\* h.  Objects nothing refers to are dropped, and the others are named by
\* their place in Refs(s, u, r): Python object identities are not observable
\* beyond which references are the same object, which this keeps.
Store(h, s, u, r) ==
    LET refs == Refs(s, u, r)
    IN  /\ slides' = Rank(refs, s)
        /\ undo_stack' = [i \in 1..Len(u) |-> Rank(refs, u[i])]
        /\ redo_stack' = [i \in 1..Len(r) |-> Rank(refs, r[i])]
        /\ heap' = [o \in ObjIds |->
                      IF \E p \in Range(refs) : Rank(refs, p) = o
                      THEN h[CHOOSE p \in Range(refs) : Rank(refs, p) = o]
                      ELSE <<>>]
\* A mutation of ListCopy: the list itself is pushed, not a copy of it.
ListCopyAlias(l) == l
\* l.copy(): the identity of the new list.  Its contents are those of l at
\* the time of the call (a shallow copy: the slide dicts are shared).
ListCopy(l) == Fresh(InUse)
\* The heap after `c = l.copy()`.
WithCopy(h, c, l) == [h EXCEPT ![c] = h[l]]

\* --------------------------------------------------- where a run can stop
\* The form of tab 1 in edit mode reads the edited slide into its widgets:
\* slide_data.get raises on a value that is not a dict, the alignment
\* select box looks the slide's title_alignment up among "Left", "Center",
\* "Right" (the form stores it in lower case), the chart select
\* box looks the capitalized chart name up in its four options, and the
\* category inputs read chart_data.get("categories") of a chart_data that
\* is None when the slide has the key with no chart data under it.
EditFormRaises(s) ==
    \/ ~s.isdict
    \/ s.title_alignment \notin {Absent, "", "Left", "Center", "Right"}
    \/ /\ s.chart # ""
       /\ \/ Capitalize(s.chart) \notin {"None", "Pie", "Bar", "Line"}
          \/ s.chart_data.kind = "none"
\* The script raises before any handler is reached: edit_index names no
\* element of outline o, or the form cannot show the one it names.
TopRaisesIn(o) ==
    /\ edit_index # NoIndex
    /\ \/ edit_index >= Len(o)
       \/ EditFormRaises(o[edit_index + 1])
TopRaises == TopRaisesIn(Outline)
\* matplotlib refuses a pie, bar or line plot of two sequences of unequal
\* length; generate_chart_preview returns early when either is empty.
generate_chart_preview_raises(chart_type, categories, values) ==
    /\ categories # <<>>
    /\ values # <<>>
    /\ chart_type \in {"pie", "bar", "line"}
    /\ Len(categories) # Len(values)
\* The expander of one slide in tab 4 raises while it draws the previews.
PreviewRaises(s) ==
    /\ s.chart # ""
    /\ s.chart_data.kind \notin {"none", "absent"}
    /\ \/ /\ s.chart_input_type = "Manual"
          /\ \/ s.chart_data.kind # "manual"
             \/ generate_chart_preview_raises(
                    s.chart, s.chart_data.categories, s.chart_data.values)
       \/ /\ s.chart_input_type = "Dataset"
          /\ dataset # NoDataset
          /\ s.chart_data.x_col \in Range(dataset.columns)
          /\ s.chart_data.y_col \in Range(dataset.columns)
          /\ s.title = Absent
\* Tab 2 is passed: the tabs below it and the "Generate PPT" button need that.
StyleReached == ~TabTwoRaises(style)
\* Tab 4 gets past the sortable list: there are slides, and slide.get works
\* on every one of them.
SorterReachedIn(o) ==
    /\ ~TopRaisesIn(o)
    /\ StyleReached
    /\ o # <<>>
    /\ \A j \in 1..Len(o) : o[j].isdict
SorterReached == SorterReachedIn(Outline)
\* The Edit, Delete and Duplicate buttons of slide i (from 0) are reached.
ButtonsReached(i) ==
    /\ SorterReached
    /\ i < Len(Outline)
    /\ \A j \in 1..(i + 1) : ~PreviewRaises(Outline[j])
\* The Undo and Redo buttons, below the loop over the slides, are reached.
HistoryReachedIn(o) ==
    /\ SorterReachedIn(o)
    /\ \A j \in 1..Len(o) : ~PreviewRaises(o[j])
HistoryReached == HistoryReachedIn(Outline)
\* The "Generate PPT" button, below tab 4, is reached.
GenerateReached ==
    /\ ~TopRaises
    /\ StyleReached
    /\ Outline # <<>> => HistoryReached

\* ------------------------------------------------------- layout selection
\* A mutation of determine_layout: an image does not count as content.
determine_layout_no_image(slide_data) ==
    LET has_title == slide_data.title \notin {Absent, ""}
        has_content == \/ slide_data.content # <<>>
                       \/ slide_data.chart \notin {"", None}
    IN  IF has_title /\ ~has_content THEN "Title Slide"
        ELSE IF has_title /\ has_content THEN "Title and Content"
        ELSE "Blank"
determine_layout(slide_data) ==
    LET has_title == slide_data.title \notin {Absent, ""}
        has_content == \/ slide_data.content # <<>>
                       \/ slide_data.chart \notin {"", None}
                       \/ slide_data.image \notin {"", None}
    IN  IF has_title /\ ~has_content THEN "Title Slide"
        ELSE IF has_title /\ has_content THEN "Title and Content"
        ELSE "Blank"

\* ---------------------------------------------------- the pre-state record
Snapshot == [outline |-> Outline, undo |-> UndoVals, redo |-> RedoVals,
             edit |-> edit_index, style |-> style]
Ran(op, f, text, i) ==
    [op |-> op, pre |-> Snapshot, form |-> f, text |-> text, idx |-> i]

\* The options of the "Default Slide Layout" select box, and the one it
\* starts with (index=1).  The script reads the box anew in every run.
Layouts == {"Title Slide", "Title and Content", "Blank"}
DefaultLayout == "Title and Content"
\* What the box reads in the runs of the model: left alone, or set to Blank.
LayoutChoices == {DefaultLayout, "Blank"}
\* The uploads the "Upload Images" uploader of tab 4 can hold in a run:
\* image_files maps each name to its file, a stream at position 0.  The
\* uploads that matter to outline o are those under a name that a slide of
\* o refers to.
ImageSets(o) ==
    SUBSET {o[j].image : j \in {k \in 1..Len(o) :
                                  o[k].isdict /\ o[k].image \notin {None, "", Absent}}}
\* No presentation: the download button exists only in the run that built it.
\* elements and warnings: what the render put on each slide beside title
\* and bullets, and the st.warning calls it made; image_files: the uploads
\* it ran with; exhausted: those whose stream it left at its end.
NoDoc == [status |-> "none", slides |-> <<>>, layout_name |-> DefaultLayout,
          elements |-> <<>>, warnings |-> <<>>, image_files |-> {},
          exhausted |-> {}]

\* --------------------------------------------------- tab 2 in every run
\* Streamlit keeps the value of a widget that has no key for as long as the
\* arguments it is created with stay the same, and starts it again from its
\* default when they change.  The "Background Color 2" picker exists only
\* while the background type reads "Gradient".
RefreshedFrom(w, s) ==
    LET d == WidgetDefaults(s)
        v == [k \in StyleWidgets |->
                IF d[k] # w.shown[k] THEN d[k] ELSE w.value[k]]
    IN  [shown |-> d,
         value |-> IF v.bg_type = "Gradient" THEN v
                   ELSE [v EXCEPT !.bg_color2 = d.bg_color2]]
Refreshed(s) == RefreshedFrom(widgets, s)
\* font_name, font_color_hex, bg_type, bg_color1_hex, bg_color2_hex: what
\* the script reads from widgets w.
StyleRead(w) ==
    [font |-> w.value.font, font_color |-> w.value.font_color,
     bg_type |-> w.value.bg_type, bg_color1 |-> w.value.bg_color1,
     bg_color2 |-> IF w.value.bg_type = "Gradient"
                   THEN w.value.bg_color2 ELSE None]
\* The theme import at the end of tab 2, which runs in every run in which
\* the uploader holds file tf: the session style after it, from style s.
Imported(s, tf) ==
    IF tf = NoTheme THEN s
    ELSE LET theme_data == JsonLoadTheme(tf)
         IN  IF theme_data.ok /\ HasRequiredKeys(theme_data.value)
             THEN theme_data.value ELSE s
\* Tab 2 of one run, entered with session style s and theme file tf.  When
\* the widgets raise, the run ends there.
StyleRun(s, tf) ==
    IF TabTwoRaises(s)
    THEN style' = s /\ UNCHANGED widgets
    ELSE style' = Imported(s, tf) /\ widgets' = Refreshed(s)
\* Tab 2 of a run that touches neither the presets nor the style widgets
\* nor the theme uploader.
StylePass ==
    /\ StyleRun(style, theme_file)
    /\ UNCHANGED <<theme_file, applied>>
NoPreset == [preset |-> "Custom", edited |-> {}]

Init ==
    /\ slides = 1
    /\ undo_stack = <<>>
    /\ redo_stack = <<>>
    /\ heap = [o \in ObjIds |-> <<>>]
    /\ edit_index = NoIndex
    /\ dataset = NoDataset
    /\ style = DefaultStyle
    /\ widgets = [shown |-> WidgetDefaults(DefaultStyle),
                  value |-> WidgetDefaults(DefaultStyle)]
    /\ theme_file = NoTheme
    /\ doc = NoDoc
    /\ commits = 0
    /\ applied = NoPreset
    /\ last = Ran("init", NoForm, "", NoIndex)

\* A mutation of NoRedo: the redo stack is left as it is.
NoRedoKept == redo_stack
\* st.session_state.redo_stack = [], the last statement of every commit.
NoRedo == <<>>

\* ------------------------------------------------------- tab 1: the form
\* The dataset after the form's file uploader has been read.
form_dataset(f) ==
    IF f.chart_input_type = "Dataset" /\ f.uploaded # NoDataset
    THEN f.uploaded ELSE dataset
\* bullets: the multiselect's selection, plus the new bullet if it is not
\* already in it.
form_bullets(f, edit_mode, old_content) ==
    LET selected == IF edit_mode /\ f.keep THEN old_content ELSE <<>>
    IN  IF f.new_bullet # "" /\ f.new_bullet \notin Range(selected)
        THEN Append(selected, f.new_bullet) ELSE selected
\* chart_type: the select box of the chosen input method; None when the
\* Dataset method has no dataset to offer one for.
form_chart_type(f, ds) ==
    IF f.chart_input_type = "Manual" THEN f.chart_type
    ELSE IF ds # NoDataset THEN f.chart_type ELSE None
\* chart_data: the non-empty categories and the non-zero values, each
\* filtered on its own (Manual); the column selectors, when the y column
\* is numeric and neither column has missing values (Dataset).
form_chart_data(f, ds) ==
    IF f.chart_input_type = "Manual"
    THEN IF f.chart_type # "None"
         THEN ManualData(FilterStr([i \in 1..Len(f.rows) |-> f.rows[i].cat]),
                         FilterNum([i \in 1..Len(f.rows) |-> f.rows[i].val]))
         ELSE NoChartData
    ELSE IF ds = NoDataset THEN NoChartData
         ELSE IF f.y_col \notin ds.numeric THEN NoChartData
         ELSE IF f.x_col \in ds.hasna \/ f.y_col \in ds.hasna THEN NoChartData
         ELSE DatasetData(f.x_col, f.y_col,
                          IF f.category_col # "None" THEN f.category_col ELSE None)
\* The form raises while it reads the submitted values against the slide
\* being edited: the category inputs of a Manual chart take their defaults
\* from slide_data.get("chart_data", {}), which is None for a slide saved
\* without chart data; the Dataset chart select box looks the slide's chart
\* name up among "Bar", "Line", "Pie", "Scatter".
SubmitRaises(f, slide_data, ds) ==
    \/ /\ f.chart_input_type = "Manual"
       /\ f.chart_type # "None"
       /\ slide_data.chart_data.kind = "none"
    \/ /\ f.chart_input_type = "Dataset"
       /\ ds # NoDataset
       /\ slide_data.chart # ""
       /\ slide_data.chart \notin {"Bar", "Line", "Pie", "Scatter"}
\* The two checks made on submit: a blank title, or the Dataset method
\* without a dataset, keep the slide out of the outline.
SubmitBlocked(f, ds) ==
    \/ Strip(f.title) = ""
    \/ f.chart_input_type = "Dataset" /\ ds = NoDataset
new_slide(f, edit_mode, old_content, ds) ==
    LET chart_type == form_chart_type(f, ds)
    IN  [MkSlide(f.title,
                 FilterStr(form_bullets(f, edit_mode, old_content)),
                 IF chart_type # None /\ chart_type # "None"
                 THEN Lower(chart_type) ELSE "",
                 form_chart_data(f, ds),
                 f.chart_input_type,
                 IF Strip(f.image) # "" THEN Strip(f.image) ELSE None)
         EXCEPT !.title_alignment = Lower(f.title_alignment)]

\* "Add Slide" / "Save Slide".
FormSubmit ==
    \E f \in FormInputs :
      LET edit_mode == edit_index # NoIndex
          slide_data == IF edit_mode THEN Outline[edit_index + 1] ELSE EmptyDict
          old_content == slide_data.content
          ds == form_dataset(f)
          slide == new_slide(f, edit_mode, old_content, ds)
          c == ListCopy(slides)
          h1 == WithCopy(heap, c, slides)
          u1 == Append(undo_stack, c)
          h2 == [h1 EXCEPT ![slides] =
                    IF edit_mode THEN SetAt(h1[slides], edit_index, slide)
                    ELSE Append(h1[slides], slide)]
      IN  /\ ~TopRaises
          /\ ~f.keep => edit_mode
          /\ dataset' = ds
          /\ StylePass
          /\ doc' = NoDoc
          /\ IF SubmitRaises(f, slide_data, ds) \/ SubmitBlocked(f, ds)
             THEN /\ last' = Ran(IF SubmitRaises(f, slide_data, ds)
                                 THEN "submit_raised" ELSE "submit_blocked",
                                 f, "", edit_index)
                  /\ UNCHANGED <<slides, undo_stack, redo_stack, heap,
                                 edit_index, commits>>
             ELSE /\ commits < MaxCommits
                  /\ edit_mode \/ Len(Outline) < MaxSlides
                  /\ Store(h2, slides, u1, NoRedo)
                  /\ edit_index' = NoIndex
                  /\ commits' = commits + 1
                  /\ last' = Ran(IF edit_mode THEN "save" ELSE "add",
                                 f, "", edit_index)

\* --------------------------------------------------- tab 3: JSON outline
\* A mutation of IsList: any parsed value is taken for an outline.
IsListAny(v) == TRUE
\* isinstance(slides, list)
IsList(v) == v.type = "list"

\* "Load JSON Outline".
LoadJson ==
    \E text \in OutlineTexts :
      LET v == JsonLoads(text)
          c == ListCopy(slides)
          n == Fresh(InUse \cup {c})
          h1 == [WithCopy(heap, c, slides) EXCEPT ![n] = v.items]
          u1 == Append(undo_stack, c)
      IN  /\ ~TopRaises
          /\ StyleReached
          /\ UNCHANGED <<edit_index, dataset>>
          /\ StylePass
          /\ doc' = NoDoc
          /\ IF Strip(text) = "" \/ ~v.ok \/ ~IsList(v)
             THEN /\ last' = Ran("load_blocked", NoForm, text, NoIndex)
                  /\ UNCHANGED <<slides, undo_stack, redo_stack, heap, commits>>
             ELSE /\ commits < MaxCommits
                  /\ Len(v.items) <= MaxSlides
                  /\ Store(h1, n, u1, NoRedo)
                  /\ commits' = commits + 1
                  /\ last' = Ran("load", NoForm, text, NoIndex)

\* ------------------------------------------- tab 4: preview and manage
\* The orders the sortable list can return: the permutations of the slide
\* ids 0..n-1.
Orders(n) ==
    {o \in [1..n -> 0..(n - 1)] : \A i, j \in 1..n : o[i] = o[j] => i = j}
Identity(n) == [i \in 1..n |-> i - 1]

\* A drag in the sortable list: sorted_items != slide_items.
Reorder ==
    \E new_order \in Orders(Len(Outline)) :
      LET c == ListCopy(slides)
          n == Fresh(InUse \cup {c})
          h1 == [WithCopy(heap, c, slides) EXCEPT ![n] =
                    [j \in 1..Len(Outline) |-> Outline[new_order[j] + 1]]]
          u1 == Append(undo_stack, c)
      IN  /\ SorterReached
          /\ new_order # Identity(Len(Outline))
          /\ commits < MaxCommits
          /\ Store(h1, n, u1, NoRedo)
          /\ commits' = commits + 1
          /\ last' = Ran("reorder", NoForm, "", NoIndex)
          /\ UNCHANGED <<edit_index, dataset>>
          /\ StylePass
          /\ doc' = NoDoc

\* "Edit" of slide i: the next run shows it in the form.
Edit ==
    \E i \in 0..(Len(Outline) - 1) :
      /\ ButtonsReached(i)
      /\ edit_index' = i
      /\ last' = Ran("edit", NoForm, "", i)
      /\ StylePass
      /\ doc' = NoDoc
      /\ UNCHANGED <<slides, undo_stack, redo_stack, heap, dataset, commits>>

\* "Delete" of slide i.
Delete ==
    \E i \in 0..(Len(Outline) - 1) :
      LET c == ListCopy(slides)
          h1 == WithCopy(heap, c, slides)
          u1 == Append(undo_stack, c)
          h2 == [h1 EXCEPT ![slides] = RemoveAt(h1[slides], i)]
      IN  /\ ButtonsReached(i)
          /\ commits < MaxCommits
          /\ Store(h2, slides, u1, NoRedo)
          /\ commits' = commits + 1
          /\ last' = Ran("delete", NoForm, "", i)
          /\ UNCHANGED <<edit_index, dataset>>
          /\ StylePass
          /\ doc' = NoDoc

\* "Duplicate" of slide i: slide.copy() is appended.
Duplicate ==
    \E i \in 0..(Len(Outline) - 1) :
      LET c == ListCopy(slides)
          h1 == WithCopy(heap, c, slides)
          u1 == Append(undo_stack, c)
          h2 == [h1 EXCEPT ![slides] = Append(h1[slides], Outline[i + 1])]
      IN  /\ ButtonsReached(i)
          /\ commits < MaxCommits
          /\ Len(Outline) < MaxSlides
          /\ Store(h2, slides, u1, NoRedo)
          /\ commits' = commits + 1
          /\ last' = Ran("duplicate", NoForm, "", i)
          /\ UNCHANGED <<edit_index, dataset>>
          /\ StylePass
          /\ doc' = NoDoc

\* disabled=not st.session_state.undo_stack
UndoDisabled == undo_stack = <<>>
\* A mutation of RedoDisabled: the button is never disabled.
NeverDisabled == FALSE
\* disabled=not st.session_state.redo_stack
RedoDisabled == redo_stack = <<>>

\* The Undo button's handler.  On an empty undo_stack, pop() raises after
\* the copy has been pushed onto redo_stack.
Undo ==
    LET c == ListCopy(slides)
        h1 == WithCopy(heap, c, slides)
        r1 == Append(redo_stack, c)
    IN  /\ HistoryReached
        /\ ~UndoDisabled
        /\ IF undo_stack = <<>>
           THEN Store(h1, slides, undo_stack, r1)
           ELSE Store(h1, Last(undo_stack), Front(undo_stack), r1)
        /\ last' = Ran("undo", NoForm, "", NoIndex)
        /\ UNCHANGED <<edit_index, dataset, commits>>
        /\ StylePass
        /\ doc' = NoDoc

\* The Redo button's handler.
Redo ==
    LET c == ListCopy(slides)
        h1 == WithCopy(heap, c, slides)
        u1 == Append(undo_stack, c)
    IN  /\ HistoryReached
        /\ ~RedoDisabled
        /\ IF redo_stack = <<>>
           THEN Store(h1, slides, u1, redo_stack)
           ELSE Store(h1, Last(redo_stack), u1, Front(redo_stack))
        /\ last' = Ran("redo", NoForm, "", NoIndex)
        /\ UNCHANGED <<edit_index, dataset, commits>>
        /\ StylePass
        /\ doc' = NoDoc

\* ------------------------------------------------------------ Generate PPT
\* slide_data.get("chart", "").lower() raises on a chart that is not a
\* string, and add_text_to_shape looks the title alignment up among "left",
\* "center", "right"; the handler's outer except ends the render.
RenderRaises(slide_data) ==
    \/ slide_data.chart = None
    \/ Get(slide_data.title_alignment, "left") \notin {"left", "center", "right"}
\* What one iteration of the loop adds to the presentation.
RenderSlide(slide_data) ==
    [layout |-> determine_layout(slide_data),
     title |-> IF slide_data.title = Absent THEN "Untitled" ELSE slide_data.title,
     content |-> slide_data.content]
\* A mutation of Rendered: slides are added in front, so the document is
\* in reverse order.
RenderedReversed(outline) ==
    [i \in 1..Len(outline) |-> RenderSlide(outline[Len(outline) + 1 - i])]
\* The slides of the presentation after the loop: one per entry that is a
\* dict, in order; the others are skipped with a warning.
Rendered(outline) ==
    LET kept == SelectSeq(outline, LAMBDA sl : sl.isdict)
    IN  [i \in 1..Len(kept) |-> RenderSlide(kept[i])]


\* chart_data_input is truthy: a dict with keys.
HasChartData(slide_data) == slide_data.chart_data.kind \notin {"none", "absent"}
\* The Manual chart block is entered; it adds the chart unless
\* chart_data_input["categories"] raises KeyError, which it catches.
ManualChartTried(slide_data) ==
    /\ slide_data.chart \in {"pie", "bar", "line"}
    /\ HasChartData(slide_data)
    /\ Get(slide_data.chart_input_type, "Manual") = "Manual"
ManualChartAdded(slide_data) ==
    ManualChartTried(slide_data) /\ slide_data.chart_data.kind = "manual"
\* The Dataset chart block is entered.
DatasetChartTried(slide_data) ==
    /\ slide_data.chart \in {"bar", "line", "pie", "scatter"}
    /\ Get(slide_data.chart_input_type, "Manual") = "Dataset"
    /\ HasChartData(slide_data)
    /\ dataset # NoDataset
\* x_col and y_col and x_col in df.columns and y_col in df.columns: the
\* only test made on the columns before the figure is built.
DatasetColumnsFound(slide_data) ==
    /\ slide_data.chart_data.x_col \notin {None, ""}
    /\ slide_data.chart_data.y_col \notin {None, ""}
    /\ slide_data.chart_data.x_col \in Range(dataset.columns)
    /\ slide_data.chart_data.y_col \in Range(dataset.columns)
\* regenerate_plotly_fig returns a figure: plotly express takes any two
\* columns of the frame, numeric or not, and raises on a colour column
\* that the frame does not have.
regenerate_plotly_fig(df, category_col) ==
    category_col \in {None, ""} \/ category_col \in Range(df.columns)
\* The figure is written to PNG and the picture added to the slide.
DatasetChartAdded(slide_data) ==
    /\ DatasetChartTried(slide_data)
    /\ DatasetColumnsFound(slide_data)
    /\ regenerate_plotly_fig(dataset, slide_data.chart_data.category_col)
\* The image block is entered: image_path and image_path in image_files.
ImageTried(slide_data, image_files) ==
    /\ slide_data.image \notin {None, "", Absent}
    /\ slide_data.image \in image_files
\* image_files[image_path].read() gives the bytes of the file the first
\* time it is called in a run, and nothing after that: the stream is left
\* at its end.  add_picture raises on an empty stream.
ImageAdded(kept, j, image_files) ==
    /\ ImageTried(kept[j], image_files)
    /\ \A k \in 1..(j - 1) : kept[k].image # kept[j].image
\* What the render puts on the slide of entry j beside title and bullets.
\* read: the style widgets as this run reads them; st: the session style.
\* Title, bullets and a Manual chart's title take font_name and font_color;
\* a Dataset figure takes the session style's font and font_color.
RenderElements(kept, j, read, st, image_files) ==
    LET slide_data == kept[j]
        chart == IF ManualChartAdded(slide_data) THEN "manual"
                 ELSE IF DatasetChartAdded(slide_data) THEN "dataset"
                 ELSE "none"
    IN  [font |-> read.font,
         font_color |-> read.font_color,
         background |-> <<read.bg_type, read.bg_color1, read.bg_color2>>,
         chart |-> chart,
         chart_font |->
             CASE chart = "manual" -> read.font
               [] chart = "dataset" -> Get(st.font, "Arial")
               [] OTHER -> None,
         chart_font_color |->
             CASE chart = "manual" -> read.font_color
               [] chart = "dataset" -> Get(st.font_color, "#000000")
               [] OTHER -> None,
         image |-> ImageAdded(kept, j, image_files)]
Warning(kind, about) == [kind |-> kind, about |-> about]
\* The st.warning calls made for entry j, in order.
RenderWarnings(kept, j, image_files) ==
    LET slide_data == kept[j]
        title == Get(slide_data.title, "Untitled")
    IN  (IF ManualChartTried(slide_data) /\ ~ManualChartAdded(slide_data)
         THEN <<Warning("Invalid chart data", title)>> ELSE <<>>)
        \o (IF DatasetChartTried(slide_data)
            THEN IF ~DatasetColumnsFound(slide_data)
                 THEN <<Warning("Invalid chart data", title)>>
                 ELSE IF ~DatasetChartAdded(slide_data)
                      THEN <<Warning("Failed to regenerate chart", title),
                             Warning("Failed to generate chart", title)>>
                      ELSE <<>>
            ELSE <<>>)
        \o (IF ImageTried(slide_data, image_files)
               /\ ~ImageAdded(kept, j, image_files)
            THEN <<Warning("Failed to add image", slide_data.image)>>
            ELSE <<>>)
RECURSIVE Flatten(_)
Flatten(ss) == IF ss = <<>> THEN <<>> ELSE Head(ss) \o Flatten(Tail(ss))
\* The presentation and what is shown with it, for outline `outline`.
RenderAll(outline, layout_name, read, st, image_files) ==
    LET kept == SelectSeq(outline, LAMBDA sl : sl.isdict)
        skipped == SelectSeq(outline, LAMBDA sl : ~sl.isdict)
    IN  [status |-> "saved",
         slides |-> Rendered(outline),
         layout_name |-> layout_name,
         elements |-> [j \in 1..Len(kept) |->
                         RenderElements(kept, j, read, st, image_files)],
         warnings |->
             [j \in 1..Len(skipped) |-> Warning("Skipping invalid slide data", None)]
             \o Flatten([j \in 1..Len(kept) |->
                            RenderWarnings(kept, j, image_files)]),
         image_files |-> image_files,
         exhausted |-> {kept[j].image : j \in
                          {k \in 1..Len(kept) : ImageTried(kept[k], image_files)}}]

\* "Generate PPT", in a run where the default layout select box reads
\* layout_name and the image uploader holds image_files.
GeneratePPT ==
    \E layout_name \in LayoutChoices, image_files \in ImageSets(Outline) :
      /\ GenerateReached
      /\ StylePass
      /\ doc' =
           IF Outline = <<>>
           THEN [NoDoc EXCEPT !.status = "no slides", !.layout_name = layout_name,
                              !.image_files = image_files]
           ELSE IF \E j \in 1..Len(Outline) :
                       Outline[j].isdict /\ RenderRaises(Outline[j])
                THEN [NoDoc EXCEPT !.status = "error", !.layout_name = layout_name,
                                   !.image_files = image_files]
                ELSE RenderAll(Outline, layout_name, StyleRead(Refreshed(style)),
                               Imported(style, theme_file), image_files)
      /\ last' = Ran("generate", NoForm, "", NoIndex)
      /\ UNCHANGED <<slides, undo_stack, redo_stack, heap, edit_index, dataset,
                     commits>>

\* ------------------------------------------------- tab 2: style options
\* "Apply Preset", with the preset select box on `preset`.  The button is
\* above the style widgets, which are created from the preset in this run;
\* the theme import below them runs after it.
ApplyPreset ==
    \E preset \in Presets :
      /\ ~TopRaises
      /\ StyleRun(style_presets(preset), theme_file)
      /\ applied' = [preset |-> preset, edited |-> {}]
      /\ last' = Ran("apply_preset", NoForm, preset, NoIndex)
      /\ doc' = NoDoc
      /\ UNCHANGED <<slides, undo_stack, redo_stack, heap, edit_index, dataset,
                     theme_file, commits>>

\* The changes the user makes to a style widget.
StyleEdits == {<<"font", "Calibri">>, <<"font_color", "#FF0000">>}

\* The user sets one style widget.  Only the widget takes the value: no
\* statement of the script writes it into the session style.
EditStyle ==
    \E e \in StyleEdits :
      LET w == RefreshedFrom([widgets EXCEPT !.value[e[1]] = e[2]], style)
      IN  /\ ~TopRaises
          /\ StyleReached
          /\ widgets.value[e[1]] # e[2]
          /\ w.value[e[1]] = e[2]
          /\ widgets' = w
          /\ style' = Imported(style, theme_file)
          /\ applied' = [applied EXCEPT !.edited = @ \cup {e[1]}]
          /\ last' = Ran("edit_style", NoForm, e[1], NoIndex)
          /\ doc' = NoDoc
          /\ UNCHANGED <<slides, undo_stack, redo_stack, heap, edit_index,
                         dataset, theme_file, commits>>

\* The import of theme file tf replaces the session style.
ThemeAccepted(tf) ==
    JsonLoadTheme(tf).ok /\ HasRequiredKeys(JsonLoadTheme(tf).value)

\* A file is given to "Upload Theme JSON".  The uploader keeps it, so
\* every later run imports it again.
UploadTheme ==
    \E tf \in ThemeFiles :
      /\ ~TopRaises
      /\ StyleReached
      /\ theme_file' = tf
      /\ StyleRun(style, tf)
      /\ applied' = IF ThemeAccepted(tf) THEN NoPreset ELSE applied
      /\ last' = Ran(IF ThemeAccepted(tf) THEN "import_theme"
                     ELSE "import_rejected", NoForm, tf, NoIndex)
      /\ doc' = NoDoc
      /\ UNCHANGED <<slides, undo_stack, redo_stack, heap, edit_index, dataset,
                     commits>>

\* The file is removed from the uploader.
RemoveTheme ==
    /\ ~TopRaises
    /\ StyleReached
    /\ theme_file # NoTheme
    /\ theme_file' = NoTheme
    /\ StyleRun(style, NoTheme)
    /\ last' = Ran("remove_theme", NoForm, "", NoIndex)
    /\ doc' = NoDoc
    /\ UNCHANGED <<slides, undo_stack, redo_stack, heap, edit_index, dataset,
                   commits, applied>>

Next ==
    \/ FormSubmit
    \/ LoadJson
    \/ Reorder
    \/ Edit
    \/ Delete
    \/ Duplicate
    \/ Undo
    \/ Redo
    \/ GeneratePPT

Spec == Init /\ [][Next]_vars

\* The style options, on an outline of two slides added through the form:
\* a Dataset bar chart over sales.csv, then a Manual pie chart.
StyleFormOne == DatasetForm("A", "Bar", SalesData)
StyleFormTwo == ManualForm("A", "Pie", <<Row("c1", 5), Row("c2", 7)>>)
StyleSlideOne == new_slide(StyleFormOne, FALSE, <<>>, SalesData)
StyleSlideTwo == new_slide(StyleFormTwo, FALSE, <<>>, SalesData)
StyleInit ==
    /\ slides = 1
    /\ undo_stack = <<2, 3>>
    /\ redo_stack = <<>>
    /\ heap = [o \in ObjIds |->
                 CASE o = 1 -> <<StyleSlideOne, StyleSlideTwo>>
                   [] o = 3 -> <<StyleSlideOne>>
                   [] OTHER -> <<>>]
    /\ edit_index = NoIndex
    /\ dataset = SalesData
    /\ style = DefaultStyle
    /\ widgets = [shown |-> WidgetDefaults(DefaultStyle),
                  value |-> WidgetDefaults(DefaultStyle)]
    /\ theme_file = NoTheme
    /\ doc = NoDoc
    /\ commits = 2
    /\ applied = NoPreset
    /\ last = [op |-> "add",
               pre |-> [outline |-> <<StyleSlideOne>>, undo |-> << <<>> >>,
                        redo |-> <<>>, edit |-> NoIndex, style |-> DefaultStyle],
               form |-> StyleFormTwo, text |-> "", idx |-> NoIndex]

StyleNext ==
    \/ ApplyPreset
    \/ EditStyle
    \/ UploadTheme
    \/ RemoveTheme
    \/ GeneratePPT

StyleSpec == StyleInit /\ [][StyleNext]_vars

\* ================================================================ claims
\* The outline and both stacks are what they were before the last run.
HistoryUnchanged ==
    /\ Outline = last.pre.outline
    /\ UndoVals = last.pre.undo
    /\ RedoVals = last.pre.redo
\* The runs that replace or mutate the outline outside undo and redo.
CommitOps == {"add", "save", "delete", "duplicate", "reorder", "load"}

\* C1: every outline-mutating operation (add slide, save edited slide,
\* delete, duplicate, reorder, load JSON outline) is a commit: right after
\* it the top of the undo stack equals the outline as it was before the
\* operation, the undo stack is one entry longer, and the redo stack is
\* empty.  A run that changes the outline and is neither an undo nor a redo
\* counts as such an operation whatever handler it was.
C1_MutationIsCommit ==
    (\/ last.op \in CommitOps
     \/ Outline # last.pre.outline /\ last.op \notin {"undo", "redo"})
    => /\ Len(undo_stack) = Len(last.pre.undo) + 1
       /\ Last(UndoVals) = last.pre.outline
       /\ redo_stack = <<>>
\* A slide is added while the redo stack holds an entry, which the commit
\* drops.
C1_Witness ==
    /\ last.op = "add"
    /\ last.pre.redo # <<>>
    /\ redo_stack = <<>>
    /\ Outline # last.pre.outline

\* C2: undo after a commit restores the pre-commit outline, and redo after
\* that undo can be executed, for every pre-commit outline including the
\* empty one (so that [] -> commit [A] -> commit [A,B] -> undo -> undo ->
\* redo -> redo runs through to [A,B]): right after an undo, the Redo
\* button is reached and enabled.
C2_RedoFollowsUndo ==
    last.op = "undo"
    => /\ Outline = Last(last.pre.undo)
       /\ HistoryReached
       /\ ~RedoDisabled

\* One press of Undo on a state given by content, a press that the page
\* does not offer (the button is not reached, or is disabled) changing
\* nothing.
UndoOnce(st) ==
    IF HistoryReachedIn(st.outline) /\ st.undo # <<>>
    THEN [outline |-> Last(st.undo), undo |-> Front(st.undo),
          redo |-> Append(st.redo, st.outline)]
    ELSE st
RECURSIVE UndoTimes(_, _)
UndoTimes(st, n) == IF n = 0 THEN st ELSE UndoTimes(UndoOnce(st), n - 1)

\* C3: after any sequence of commits, undos and redos from the initial
\* state, undoing as many times as there were successful commits leaves the
\* outline empty, as it was initially.
C3_UndoAllRestoresEmpty ==
    UndoTimes([outline |-> Outline, undo |-> UndoVals, redo |-> RedoVals],
              commits).outline = <<>>

C5_SnapshotsIndependent ==
    /\ slides \notin Range(undo_stack) \cup Range(redo_stack)
    /\ last.op \in {"add", "save", "delete", "duplicate"}
       => /\ Len(UndoVals) = Len(last.pre.undo) + 1
          /\ \A i \in 1..Len(last.pre.undo) : UndoVals[i] = last.pre.undo[i]
          /\ Last(UndoVals) = last.pre.outline
\* An edited slide is replaced in the live list while older snapshots exist.
C5_Witness ==
    /\ last.op = "save"
    /\ last.pre.undo # <<>>
    /\ Outline # last.pre.outline
    /\ Len(Outline) = Len(last.pre.outline)

\* A text that is not an outline: empty after strip, not parseable, or
\* parsed to something that is not a list.
Malformed(text) ==
    \/ Strip(text) = ""
    \/ ~JsonLoads(text).ok
    \/ JsonLoads(text).type # "list"

\* C6: loading a malformed outline text (not parseable, empty, or not a
\* list at the top level) leaves the outline and both stacks unchanged;
\* nothing is committed.
C6_MalformedLoadChangesNothing ==
    (last.op \in {"load", "load_blocked"} /\ Malformed(last.text))
    => /\ HistoryUnchanged
       /\ last.op = "load_blocked"
\* A JSON object is pasted while the outline and the undo stack hold slides.
C6_Witness ==
    /\ last.op = "load_blocked"
    /\ last.text = TextObject
    /\ Outline # <<>>
    /\ undo_stack # <<>>

\* C7: every slide of the live outline has a non-empty title, in every
\* state reached through the mutating operations, and a form submit with a
\* missing or blank title is blocked and leaves the outline and both stacks
\* unchanged.
C7_TitlesNonEmpty ==
    /\ \A j \in 1..Len(Outline) :
          Outline[j].isdict /\ Outline[j].title \notin {Absent, ""}
    /\ (last.op \in {"add", "save", "submit_blocked", "submit_raised"}
        /\ Strip(last.form.title) = "")
       => HistoryUnchanged

\* The manual chart of form f has categories (empty strings dropped) and
\* values (zeros dropped) of unequal length.
ManualUnequal(f) ==
    /\ f.chart_input_type = "Manual"
    /\ f.chart_type # "None"
    /\ Len(FilterStr([i \in 1..Len(f.rows) |-> f.rows[i].cat]))
         # Len(FilterNum([i \in 1..Len(f.rows) |-> f.rows[i].val]))

\* C8: a slide whose Manual chart has categories and values of unequal
\* filtered length is never committed: submitting it leaves the outline and
\* both stacks unchanged.
C8_UnequalChartBlocked ==
    (last.op \in {"add", "save", "submit_blocked", "submit_raised"}
     /\ ManualUnequal(last.form))
    => HistoryUnchanged

\* The layout rule in the words of the specification.
RuleLayout(s) ==
    LET titled == s.title # Absent /\ s.title # ""
        bullets == Len(s.content) > 0
        chart == s.chart # ""
        image == s.image # None
    IN  CASE titled /\ ~bullets /\ ~chart /\ ~image -> "Title Slide"
          [] titled /\ (bullets \/ chart \/ image) -> "Title and Content"
          [] OTHER -> "Blank"

\* C9: the layout of every slide of a generated document is the one the
\* rule gives for that slide's content (Title Slide: a title and no
\* bullets, chart or image; Title and Content: a title and one of them;
\* Blank otherwise), whatever the default layout select box says.
C9_LayoutFromContent ==
    (last.op = "generate" /\ doc.status = "saved")
    => \A i \in 1..Len(doc.slides) :
          i <= Len(Outline) /\ doc.slides[i].layout = RuleLayout(Outline[i])
\* A document is generated with the default layout set to Blank, and holds
\* a slide with a title and an image only, laid out as Title and Content.
C9_Witness ==
    /\ last.op = "generate"
    /\ doc.status = "saved"
    /\ doc.layout_name = "Blank"
    /\ \E i \in 1..Len(doc.slides) :
          /\ doc.slides[i].layout = "Title and Content"
          /\ Outline[i].content = <<>>
          /\ Outline[i].image # None

\* C10: a completed render of an outline of n entries gives a document of
\* exactly n slides, the i-th built from the i-th entry.
C10_OneSlidePerEntry ==
    (last.op = "generate" /\ doc.status = "saved")
    => /\ Len(doc.slides) = Len(Outline)
       /\ \A i \in 1..Len(Outline) : doc.slides[i] = RenderSlide(Outline[i])
\* A loaded outline of two different slides has been rendered.
C10_Witness ==
    /\ last.op = "generate"
    /\ doc.status = "saved"
    /\ Len(doc.slides) = 2
    /\ doc.slides[1] # doc.slides[2]
    /\ Outline = JsonLoads(TextTwo).items

\* C11: a failure of one element of one slide during a render (a wrongly
\* typed chart field or chart data, a missing image, a bad text-format
\* value) only skips that element: the render of a non-empty outline ends
\* with the document produced, holding one slide per entry.
C11_ElementFailureKeepsDocument ==
    (last.op = "generate" /\ Outline # <<>>)
    => /\ doc.status = "saved"
       /\ Len(doc.slides) = Len(Outline)

\* The image reference of slide s does not resolve among the uploads.
MissingImage(s, image_files) ==
    /\ s.image \notin {None, "", Absent}
    /\ s.image \notin image_files

\* C12: the render of an outline in which one slide refers to an image
\* that is not among the uploads, and no slide has a chart, gives a
\* document with that slide in it (title and bullets) and exactly one
\* warning, which names the missing image.
C12_MissingImageWarned ==
    (/\ last.op = "generate"
     /\ Cardinality({j \in 1..Len(Outline) :
                        MissingImage(Outline[j], doc.image_files)}) = 1
     /\ \A j \in 1..Len(Outline) : Outline[j].isdict /\ Outline[j].chart = "")
    => /\ doc.status = "saved"
       /\ Len(doc.slides) = Len(Outline)
       /\ \A j \in 1..Len(Outline) :
             MissingImage(Outline[j], doc.image_files)
             => /\ doc.slides[j].title = Outline[j].title
                /\ doc.slides[j].content = Outline[j].content
                /\ Len(doc.warnings) = 1
                /\ doc.warnings[1].about = Outline[j].image

\* Slide s has a Dataset chart whose y_col is a column of the current
\* dataset that is not numeric.
NonNumericY(s) ==
    /\ s.isdict
    /\ s.chart # ""
    /\ s.chart_input_type = "Dataset"
    /\ s.chart_data.kind = "dataset"
    /\ s.chart_data.y_col \in Range(dataset.columns) \ dataset.numeric

\* C13: in a render, a Dataset chart whose y_col names a non-numeric column
\* of the current dataset is never built into a figure and written to the
\* slide, however the slide came into the outline.
C13_NonNumericNeverDrawn ==
    (last.op = "generate" /\ doc.status = "saved"
     /\ Len(doc.elements) = Len(Outline))
    => \A j \in 1..Len(Outline) :
          NonNumericY(Outline[j]) => doc.elements[j].chart # "dataset"

\* The style a render started now would put on titles, bullets and
\* backgrounds.
EffectiveStyle == StyleRead(Refreshed(style))
\* Style record e has the font, the background kind and the background
\* colours of style dict p.
SameButFontColor(e, p) ==
    /\ e.font = p.font
    /\ e.bg_type = p.bg_type
    /\ e.bg_color1 = p.bg_color1
    /\ e.bg_color2 = p.bg_color2

\* C14: applying a preset replaces the whole working style by the preset
\* (right after "Apply Preset" the session style is the preset and a render
\* would use the preset's value in every field), and after preset
\* Minimalist followed by a change of the font colour only, a render uses
\* Minimalist's font and background and the chosen font colour.
C14_PresetReplacesStyle ==
    /\ last.op = "apply_preset"
       => /\ style = style_presets(last.text)
          /\ SameButFontColor(EffectiveStyle, style_presets(last.text))
          /\ EffectiveStyle.font_color = style_presets(last.text).font_color
    /\ (/\ last.op = "edit_style"
        /\ applied = [preset |-> "Minimalist", edited |-> {"font_color"}])
       => /\ SameButFontColor(EffectiveStyle, style_presets("Minimalist"))
          /\ EffectiveStyle.font_color = "#FF0000"

\* The theme file holds a JSON object with the four required keys.
ValidTheme(tf) ==
    /\ JsonLoadTheme(tf).ok
    /\ JsonLoadTheme(tf).value.kind = "dict"
    /\ \A key \in required_keys : JsonLoadTheme(tf).value[key] # Absent

\* C15: a theme import succeeds only for a JSON object that has all of
\* font, font_color, bg_type and bg_color1; any other file is rejected and
\* leaves the session style, the outline and both stacks as they were.
C15_ThemeImportChecked ==
    (last.op \in {"import_theme", "import_rejected"} /\ ~ValidTheme(last.text))
    => /\ last.op = "import_rejected"
       /\ style = last.pre.style
       /\ HistoryUnchanged

\* C16: a render has one effective style: the font and the font colour of
\* a Dataset chart figure are those of the slide's title and bullets (and
\* of Manual chart titles), also after the user has changed a style widget
\* following a preset or a theme import.
C16_OneStylePerRender ==
    (last.op = "generate" /\ doc.status = "saved")
    => \A j \in 1..Len(doc.elements) :
          doc.elements[j].chart # "none"
          => /\ doc.elements[j].chart_font = doc.elements[j].font
             /\ doc.elements[j].chart_font_color = doc.elements[j].font_color

\* C17: edit_index is None or an index into the live outline, and it still
\* names the slide chosen with Edit after a delete, a reorder, an undo, a
\* redo or a load that ran while it was set.
C17_EditIndexValid ==
    /\ edit_index # NoIndex => edit_index < Len(Outline)
    /\ (/\ last.op \in {"delete", "reorder", "undo", "redo", "load"}
        /\ last.pre.edit # NoIndex
        /\ last.pre.edit < Len(last.pre.outline))
       => /\ edit_index < Len(Outline)
          /\ Outline[edit_index + 1] = last.pre.outline[last.pre.edit + 1]

\* The slide that the last form submit stored.
StoredSlide ==
    IF last.op = "save" THEN Outline[last.pre.edit + 1] ELSE Last(Outline)

\* C18: the chart data stored from a Manual chart keeps the rows of the
\* form together: the i-th stored category and the i-th stored value were
\* entered in one row, also when a row has an empty category or a zero
\* value.
C18_RowsStayPaired ==
    (/\ last.op \in {"add", "save"}
     /\ last.form.chart_input_type = "Manual"
     /\ last.form.chart_type # "None")
    => LET cd == StoredSlide.chart_data
       IN  \A i \in 1..Len(cd.categories) :
              i <= Len(cd.values)
              => \E r \in 1..Len(last.form.rows) :
                    /\ last.form.rows[r].cat = cd.categories[i]
                    /\ last.form.rows[r].val = cd.values[i]

\* C19: a render leaves the uploaded images readable, so that every slide
\* of the outline whose image is among the uploads has it embedded, and
\* the step of a render leaves the dataset, the outline, both stacks and
\* the style as they were.
C19_RenderReadsOnly ==
    [][(last'.op = "generate" /\ doc'.status = "saved"
        /\ Len(doc'.elements) = Len(Outline))
       => /\ \A j \in 1..Len(Outline) :
                ImageTried(Outline[j], doc'.image_files) => doc'.elements[j].image
          /\ UNCHANGED <<slides, undo_stack, redo_stack, heap, dataset, style>>]_vars

====
